---------------------------- MODULE Spec2Model ----------------------------
(***************************************************************************)
(* Model of the horoscope scraper (scrapper.py) and of the merge script    *)
(* (merge_files.py).                                                       *)
(*                                                                         *)
(* The calendar is scaled: a year has LastMonth months of LastDay days.    *)
(* The literal '-01-01' is the first day of a year, '-12-31' the last day  *)
(* of a year and '-12-20' the day before the last one.                     *)
(* Strings are sequences of one-character strings, so that strip() is      *)
(* computed and not assumed.  A parsed page is the sequence of sibling     *)
(* nodes in which the time-stamp marker is looked up.                      *)
(***************************************************************************)
EXTENDS Integers, Sequences, FiniteSets, TLC

VARIABLES
    pc,            \* position of the scraping process
    caller,        \* "request_everything" or "Requester" (make_requests called directly)
    start_year,    \* request_everything argument
    end_year,      \* request_everything argument
    delay,         \* seconds slept after each request
    year,          \* loop variable of request_everything
    arg_signs,     \* the zodiac_signs argument given to Requester.__init__
    date_start,    \* Requester.date_start
    date_end,      \* Requester.date_end
    zodiac_signs,  \* Requester.zodiac_signs
    verbose,       \* make_requests argument
    dates,         \* pd.date_range(date_start, date_end)
    di,            \* index of the current date in dates
    si,            \* index of the current sign in zodiac_signs
    result,        \* the list make_requests builds
    page,          \* the current HoroscopePage (url, response status, page_content)
    horoscope,     \* the value get_horoscope returned for the current pair
    trace,         \* what the run did so far: stdout lines, GETs, sleeps, ...
    gets,          \* how many GETs the site received for each URL
    files,         \* data/horoscope_<year>.csv for each year
    written,       \* the years whose file this run wrote
    mpc,           \* position of the merge script
    myear,         \* loop variable of the merge script
    dfs,           \* the list the merge script builds
    combined       \* data/horoscope_dataset.csv

vars == <<pc, caller, start_year, end_year, delay, year, arg_signs, date_start,
          date_end, zodiac_signs, verbose, dates, di, si, result, page,
          horoscope, trace, gets, files, written, mpc, myear, dfs, combined>>

run_vars == <<pc, caller, start_year, end_year, delay, year, arg_signs,
              date_start, date_end, zodiac_signs, verbose, dates, di, si,
              result, page, horoscope, trace, gets, files, written>>

merge_vars == <<mpc, myear, dfs, combined>>

---------------------------------------------------------------------------
(* Bounds of the model *)

LastMonth == 2

LastDay == 2

MaxGiven == 2

MaxNodes == 3

---------------------------------------------------------------------------
(* Program constants *)

\* request_everything(2010, 2017, 0)
MainStart == 2010

MainEnd == 2017

MainDelay == 0

\* for year in range(2010, 2018)
MergeFirst == 2010

MergeLast == 2017

\* ... if year != 2017 else '2012-12-20'
TerminalYear == 2017

OverrideYear == 2012

Years == MergeFirst .. MergeLast

ZodiacSigns ==
    << "aries", "taurus", "gemini", "cancer", "leo", "virgo", "libra",
       "scorpio", "sagittarius", "capricorn", "aquarius", "pisces" >>

Columns == << "SIGN", "DATE", "TEXT" >>

---------------------------------------------------------------------------
(* Calendar *)

Date(y, m, d) == [y |-> y, m |-> m, d |-> d]

\* '{}-01-01'.format(year)
FirstOfYear(y) == Date(y, 1, 1)

\* '{}-12-31'.format(year)
LastOfYear(y) == Date(y, LastMonth, LastDay)

\* '<y>-12-20': a day of the last month before its last day
CutoffOfYear(y) == Date(y, LastMonth, LastDay - 1)

DateLess(a, b) ==
    \/ a.y < b.y
    \/ a.y = b.y /\ a.m < b.m
    \/ a.y = b.y /\ a.m = b.m /\ a.d < b.d

NextDay(a) ==
    IF a.d < LastDay THEN Date(a.y, a.m, a.d + 1)
    ELSE IF a.m < LastMonth THEN Date(a.y, a.m + 1, 1)
    ELSE Date(a.y + 1, 1, 1)

\* pd.date_range(start, end): one date per day, ascending, both ends included
RECURSIVE date_range(_, _)
date_range(start, end) ==
    IF DateLess(end, start) THEN << >>
    ELSE << start >> \o date_range(NextDay(start), end)

\* str(date.date()).replace('-', ''): the digits YYYYMMDD
format_date(date) == date.y * 10000 + date.m * 100 + date.d

\* str(date.date()), as to_csv writes a datetime.date cell: 'YYYY-MM-DD'
IsoDate(date) == << date.y, date.m, date.d >>

---------------------------------------------------------------------------
(* Pages *)

Whitespace == {" ", "\n"}

\* str.strip(): the string without its leading and trailing whitespace
RECURSIVE lstrip(_)
lstrip(s) ==
    IF s # << >> /\ Head(s) \in Whitespace THEN lstrip(Tail(s)) ELSE s

RECURSIVE rstrip(_)
rstrip(s) ==
    IF s # << >> /\ s[Len(s)] \in Whitespace
    THEN rstrip(SubSeq(s, 1, Len(s) - 1))
    ELSE s

\* Mutant of strip: only the leading whitespace is removed
strip_left(s) == lstrip(s)

strip(s) == rstrip(lstrip(s))

\* A node of the parsed page: an element (tag, class) or a text node ("#text")
Element(tag, class) == [tag |-> tag, class |-> class, text |-> << >>]

TextNode(s) == [tag |-> "#text", class |-> "", text |-> s]

Marker == Element("time", "todays-horoscope")

\* soup.find('time', {'class' : 'todays-horoscope'}): the position of the first
\* matching element, 0 (None) when there is none
IsMarker(node) == node.tag = "time" /\ node.class = "todays-horoscope"

find(soup) ==
    IF \E i \in 1 .. Len(soup) : IsMarker(soup[i])
    THEN CHOOSE i \in 1 .. Len(soup) :
            /\ IsMarker(soup[i])
            /\ \A j \in 1 .. i - 1 : ~IsMarker(soup[j])
    ELSE 0

\* date_tag.next_sibling: the position after date_tag, 0 (None) at the end
next_sibling(soup, i) == IF i < Len(soup) THEN i + 1 ELSE 0

\* Lines 22-24 of get_horoscope on a downloaded page.  None.next_sibling and
\* None.strip raise AttributeError; an element has no strip method (bs4 looks
\* up a child tag of that name, finds None, and calling it raises TypeError).
Extraction(soup) ==
    LET date_tag == find(soup)
        sib == IF date_tag = 0 THEN 0 ELSE next_sibling(soup, date_tag)
    IN  IF date_tag = 0 \/ sib = 0
        THEN [raised |-> "AttributeError", value |-> << >>]
        ELSE IF soup[sib].tag # "#text"
        THEN [raised |-> "TypeError", value |-> << >>]
        ELSE [raised |-> "", value |-> strip(soup[sib].text)]

---------------------------------------------------------------------------
(* The site *)

\* HoroscopePage.__init__: the URL, as the pair substituted into the template
Url(zodiac_sign, url_date) == << zodiac_sign, url_date >>

GoodPage ==
    << Element("p", ""), Marker, TextNode(<< "\n", "h", "i", " " >>), Element("p", "") >>

ErrorPage == << Element("p", ""), TextNode(<< "h", "i" >>) >>

SitePages == {GoodPage, ErrorPage}

Statuses == {200, 404}

\* What requests.get can do: raise (no response), or return a response of any
\* status with any body
ConnectionFailure == [raised |-> TRUE, status |-> 0, text |-> << >>]

Responses ==
    {ConnectionFailure} \cup
    { [raised |-> FALSE, status |-> st, text |-> body] :
        st \in Statuses, body \in SitePages }

NoPage == [url |-> << >>, status |-> 0, page_content |-> << >>]

---------------------------------------------------------------------------
(* Files and tables *)

Absent == [exists |-> FALSE, header |-> << >>, rows |-> << >>]

\* An empty cell read back by read_csv
NaN == << "NaN" >>

\* result_to_dataframe: pd.DataFrame.from_records(results, columns = [...])
result_to_dataframe(results) == [columns |-> Columns, rows |-> results]

\* df.to_csv(..., index = False) of a frame of (sign, datetime.date, text) rows.
\* A cell of a file is a sequence: the sign's name, the date's fields, the
\* text's characters.
to_csv(df) ==
    [exists |-> TRUE,
     header |-> df.columns,
     rows   |-> [i \in 1 .. Len(df.rows) |->
                   << << df.rows[i][1] >>, IsoDate(df.rows[i][2]), df.rows[i][3] >>]]

\* pd.read_csv(fn): every cell a string, an empty cell NaN
read_csv(file) ==
    [columns |-> file.header,
     rows    |-> [i \in 1 .. Len(file.rows) |->
                   [j \in 1 .. Len(file.rows[i]) |->
                      IF file.rows[i][j] = << >> THEN NaN ELSE file.rows[i][j]]]]

\* pd.concat(dfs) of frames with the same columns: the rows of each, in order
RECURSIVE concat_rows(_)
concat_rows(frames) ==
    IF frames = << >> THEN << >>
    ELSE Head(frames).rows \o concat_rows(Tail(frames))

\* Mutant of concat: the frames are taken last first
concat_reversed(frames) ==
    [columns |-> Head(frames).columns,
     rows    |-> concat_rows([i \in 1 .. Len(frames) |-> frames[Len(frames) + 1 - i]])]

concat(frames) == [columns |-> Head(frames).columns, rows |-> concat_rows(frames)]

\* df_all_years.to_csv(..., index = False): NaN is written as an empty cell
to_csv_all(df) ==
    [exists |-> TRUE,
     header |-> df.columns,
     rows   |-> [i \in 1 .. Len(df.rows) |->
                   [j \in 1 .. Len(df.rows[i]) |->
                      IF df.rows[i][j] = NaN THEN << >> ELSE df.rows[i][j]]]]

---------------------------------------------------------------------------
(* Requester *)

NotGiven == [given |-> FALSE, signs |-> << >>]

Given(signs) == [given |-> TRUE, signs |-> signs]

\* Mutant of InitSigns: the default replaces None only ("is None")
InitSigns_NoneOnly(arg) == IF ~arg.given THEN ZodiacSigns ELSE arg.signs

\* Requester.__init__: "if not zodiac_signs" holds of None and of an empty list
InitSigns(arg) ==
    IF ~arg.given \/ arg.signs = << >> THEN ZodiacSigns ELSE arg.signs

\* Mutant of end_date: the range is closed by the first day of the next year
end_date_exclusive(y) == FirstOfYear(y + 1)

\* request_everything: end_date of a year
end_date(y) == IF y # TerminalYear THEN LastOfYear(y) ELSE CutoffOfYear(OverrideYear)

start_date(y) == FirstOfYear(y)

Event(ev, sign, date, url) == [ev |-> ev, sign |-> sign, date |-> date, url |-> url]

NoUrl == << >>

---------------------------------------------------------------------------
(* request_everything and Requester.make_requests *)

CurrentSign == zodiac_signs[si]

CurrentDate == dates[di]

Emit(e) == trace' = Append(trace, e)

\* for year in range(start_year, end_year + 1): the banner, the dates of the
\* year, Requester(start_date, end_date), and the call of make_requests
YearLoop ==
    /\ pc = "year_loop"
    /\ IF year > end_year
       THEN /\ pc' = "done"
            /\ UNCHANGED <<date_start, date_end, zodiac_signs, trace>>
       ELSE /\ Emit(Event("banner", "", FirstOfYear(year), NoUrl))
            /\ date_start' = start_date(year)
            /\ date_end' = end_date(year)
            /\ zodiac_signs' = InitSigns(arg_signs)
            /\ pc' = "make_requests"
    /\ UNCHANGED <<written, gets, caller, start_year, end_year, delay, year, arg_signs, verbose,
                   dates, di, si, result, page, horoscope, files>>
    /\ UNCHANGED merge_vars

\* result = [] and the entry of the two loops
EnterLoops ==
    /\ pc = "make_requests"
    /\ result' = << >>
    /\ dates' = date_range(date_start, date_end)
    /\ di' = 1
    /\ si' = 1
    /\ pc' = IF date_range(date_start, date_end) = << >> \/ zodiac_signs = << >>
             THEN "return" ELSE "iter"
    /\ UNCHANGED <<written, gets, caller, start_year, end_year, delay, year, arg_signs,
                   date_start, date_end, zodiac_signs, verbose, page, horoscope,
                   trace, files>>
    /\ UNCHANGED merge_vars

\* Mutant of LogProgress: the verbose flag is ignored, nothing is printed
LogProgress_Silent ==
    /\ pc = "iter"
    /\ pc' = "download"
    /\ UNCHANGED <<written, gets, trace, caller, start_year, end_year, delay, year,
                   arg_signs, date_start, date_end, zodiac_signs, verbose, dates,
                   di, si, result, page, horoscope, files>>
    /\ UNCHANGED merge_vars

\* if verbose: print('Requesting horoscope for ...')
LogProgress ==
    /\ pc = "iter"
    /\ IF verbose
       THEN Emit(Event("print", CurrentSign, CurrentDate, NoUrl))
       ELSE UNCHANGED trace
    /\ pc' = "download"
    /\ UNCHANGED <<written, gets, caller, start_year, end_year, delay, year, arg_signs,
                   date_start, date_end, zodiac_signs, verbose, dates, di, si,
                   result, page, horoscope, files>>
    /\ UNCHANGED merge_vars

\* Mutant of Download: an exception of requests.get is caught and the GET retried
Download_Retry ==
    /\ pc = "download"
    /\ \E r \in Responses :
        LET url == Url(CurrentSign, format_date(CurrentDate)) IN
        /\ Emit(Event("get", CurrentSign, CurrentDate, url))
        /\ gets' = IF url \in DOMAIN gets
                   THEN [gets EXCEPT ![url] = @ + 1]
                   ELSE gets @@ (url :> 1)
        /\ IF r.raised
           THEN /\ pc' = "download"
                /\ page' = [url |-> url, status |-> 0, page_content |-> << >>]
           ELSE /\ pc' = "parse"
                /\ page' = [url |-> url, status |-> r.status, page_content |-> r.text]
    /\ UNCHANGED <<written, caller, start_year, end_year, delay, year, arg_signs,
                   date_start, date_end, zodiac_signs, verbose, dates, di, si,
                   result, horoscope, files>>
    /\ UNCHANGED merge_vars

\* url_date, HoroscopePage(zodiac_sign, url_date), and _download_page: one GET.
\* An exception of requests.get ends the run; any response is kept as it is.
Download ==
    /\ pc = "download"
    /\ \E r \in Responses :
        LET url == Url(CurrentSign, format_date(CurrentDate)) IN
        /\ Emit(Event("get", CurrentSign, CurrentDate, url))
        /\ gets' = IF url \in DOMAIN gets
                   THEN [gets EXCEPT ![url] = @ + 1]
                   ELSE gets @@ (url :> 1)
        /\ IF r.raised
           THEN /\ pc' = "aborted"
                /\ page' = [url |-> url, status |-> 0, page_content |-> << >>]
           ELSE /\ pc' = "parse"
                /\ page' = [url |-> url, status |-> r.status, page_content |-> r.text]
    /\ UNCHANGED <<written, caller, start_year, end_year, delay, year, arg_signs,
                   date_start, date_end, zodiac_signs, verbose, dates, di, si,
                   result, horoscope, files>>
    /\ UNCHANGED merge_vars

\* Mutant of Extract: an exception is caught and the records read so far returned
Extract_ReturnOnError ==
    /\ pc = "parse"
    /\ LET x == Extraction(page.page_content) IN
        IF x.raised # ""
        THEN /\ pc' = "return"
             /\ Emit(Event(x.raised, CurrentSign, CurrentDate, NoUrl))
             /\ UNCHANGED horoscope
        ELSE /\ pc' = "append"
             /\ Emit(Event("extract", CurrentSign, CurrentDate, NoUrl))
             /\ horoscope' = x.value
    /\ UNCHANGED <<written, gets, caller, start_year, end_year, delay, year, arg_signs,
                   date_start, date_end, zodiac_signs, verbose, dates, di, si,
                   result, page, files>>
    /\ UNCHANGED merge_vars

\* The rest of get_horoscope: parse, find, next_sibling, strip
Extract ==
    /\ pc = "parse"
    /\ LET x == Extraction(page.page_content) IN
        IF x.raised # ""
        THEN /\ pc' = "aborted"
             /\ Emit(Event(x.raised, CurrentSign, CurrentDate, NoUrl))
             /\ UNCHANGED horoscope
        ELSE /\ pc' = "append"
             /\ Emit(Event("extract", CurrentSign, CurrentDate, NoUrl))
             /\ horoscope' = x.value
    /\ UNCHANGED <<written, gets, caller, start_year, end_year, delay, year, arg_signs,
                   date_start, date_end, zodiac_signs, verbose, dates, di, si,
                   result, page, files>>
    /\ UNCHANGED merge_vars

\* result.append((zodiac_sign, date.date(), horoscope))
AppendRecord ==
    /\ pc = "append"
    /\ result' = Append(result, << CurrentSign, CurrentDate, horoscope >>)
    /\ Emit(Event("append", CurrentSign, CurrentDate, NoUrl))
    /\ pc' = "sleep"
    /\ UNCHANGED <<written, gets, caller, start_year, end_year, delay, year, arg_signs,
                   date_start, date_end, zodiac_signs, verbose, dates, di, si,
                   page, horoscope, files>>
    /\ UNCHANGED merge_vars

\* time.sleep(delay), then the next sign, or the first sign of the next date
Sleep ==
    /\ pc = "sleep"
    /\ Emit(Event("sleep", CurrentSign, CurrentDate, NoUrl))
    /\ IF si < Len(zodiac_signs)
       THEN /\ si' = si + 1
            /\ di' = di
            /\ pc' = "iter"
       ELSE /\ si' = 1
            /\ di' = di + 1
            /\ pc' = IF di < Len(dates) THEN "iter" ELSE "return"
    /\ page' = NoPage
    /\ horoscope' = << >>
    /\ UNCHANGED <<written, gets, caller, start_year, end_year, delay, year, arg_signs,
                   date_start, date_end, zodiac_signs, verbose, dates, result,
                   files>>
    /\ UNCHANGED merge_vars

\* return result, to a caller of make_requests other than request_everything
Return ==
    /\ pc = "return"
    /\ caller = "Requester"
    /\ pc' = "done"
    /\ UNCHANGED <<written, gets, caller, start_year, end_year, delay, year, arg_signs,
                   date_start, date_end, zodiac_signs, verbose, dates, di, si,
                   result, page, horoscope, trace, gets, files, written>>
    /\ UNCHANGED merge_vars

\* return result, to request_everything: the frame, the file of the year, and
\* the next year
SaveYear ==
    /\ pc = "return"
    /\ caller = "request_everything"
    /\ files' = [files EXCEPT ![year] = to_csv(result_to_dataframe(result))]
    /\ Emit(Event("to_csv", "", FirstOfYear(year), NoUrl))
    /\ written' = written \cup {year}
    /\ year' = year + 1
    /\ pc' = "year_loop"
    /\ UNCHANGED <<gets, caller, start_year, end_year, delay, arg_signs, date_start,
                   date_end, zodiac_signs, verbose, dates, di, si, result, page,
                   horoscope>>
    /\ UNCHANGED merge_vars

---------------------------------------------------------------------------
(* merge_files.py, run once the scraping process has ended *)

MergeStart ==
    /\ mpc = "idle"
    /\ pc \in {"done", "aborted"}
    /\ dfs' = << >>
    /\ myear' = MergeFirst
    /\ mpc' = "read"
    /\ UNCHANGED combined
    /\ UNCHANGED run_vars

\* Mutant of MergeRead: a missing file is skipped
MergeRead_SkipMissing ==
    /\ mpc = "read"
    /\ IF myear > MergeLast
       THEN /\ mpc' = "concat"
            /\ UNCHANGED <<dfs, myear>>
       ELSE IF ~files[myear].exists
       THEN /\ mpc' = "read"
            /\ myear' = myear + 1
            /\ UNCHANGED dfs
       ELSE /\ dfs' = Append(dfs, read_csv(files[myear]))
            /\ myear' = myear + 1
            /\ mpc' = "read"
    /\ UNCHANGED combined
    /\ UNCHANGED run_vars

\* dfs.append(pd.read_csv(fn)): a missing file raises FileNotFoundError
MergeRead ==
    /\ mpc = "read"
    /\ IF myear > MergeLast
       THEN /\ mpc' = "concat"
            /\ UNCHANGED <<dfs, myear>>
       ELSE IF ~files[myear].exists
       THEN /\ mpc' = "aborted"
            /\ UNCHANGED <<dfs, myear>>
       ELSE /\ dfs' = Append(dfs, read_csv(files[myear]))
            /\ myear' = myear + 1
            /\ mpc' = "read"
    /\ UNCHANGED combined
    /\ UNCHANGED run_vars

\* df_all_years = pd.concat(dfs); df_all_years.to_csv(...)
MergeWrite ==
    /\ mpc = "concat"
    /\ combined' = to_csv_all(concat(dfs))
    /\ mpc' = "done"
    /\ UNCHANGED <<dfs, myear>>
    /\ UNCHANGED run_vars

---------------------------------------------------------------------------
(* Specifications *)

NoDate == Date(0, 0, 0)

\* Calls of request_everything within the years of the program's own call,
\* request_everything(2010, 2017, 0): for one year, for the first two years
\* (the years of a longer call are processed the same way, one after the
\* other), and for no year
Calls ==
    { << y, y >> : y \in MainStart .. MainEnd }
        \cup { << MainStart, MainStart + 1 >>, << MainEnd, MainStart >> }

\* What a complete earlier run of request_everything left for a year
Archive(y) ==
    LET ds == date_range(start_date(y), end_date(y))
        n  == Len(ZodiacSigns)
    IN  to_csv(result_to_dataframe(
            [k \in 1 .. Len(ds) * n |->
                << ZodiacSigns[((k - 1) % n) + 1], ds[((k - 1) \div n) + 1],
                   strip(GoodPage[3].text) >>]))

\* The data directory: empty, or holding the files of an earlier run
Disks == { [y \in Years |-> Absent], [y \in Years |-> Archive(y)] }

InitMain ==
    /\ caller = "request_everything"
    /\ files \in Disks
    /\ \E c \in Calls : start_year = c[1] /\ end_year = c[2] /\ year = c[1]
    /\ delay = MainDelay
    /\ arg_signs = NotGiven
    /\ verbose = TRUE
    /\ date_start = NoDate
    /\ date_end = NoDate
    /\ zodiac_signs = << >>
    /\ pc = "year_loop"

\* A Requester built and used directly
SignPool == {"aries", "leo"}

SignLists == UNION { [1 .. n -> SignPool] : n \in 0 .. MaxGiven }

Arguments == {NotGiven} \cup { Given(l) : l \in SignLists }

DirectDates ==
    { Date(2015, m, d) : m \in 1 .. LastMonth, d \in 1 .. LastDay }
        \cup {FirstOfYear(2016)}

DirectStarts == {Date(2015, 1, LastDay)}

InitDirect ==
    /\ caller = "Requester"
    /\ files = [y \in Years |-> Absent]
    /\ start_year = 0 /\ end_year = 0 /\ year = 0
    /\ delay = 0
    /\ arg_signs \in Arguments
    /\ verbose \in BOOLEAN
    /\ date_start \in DirectStarts
    /\ date_end \in DirectDates
    /\ zodiac_signs = InitSigns(arg_signs)
    /\ pc = "make_requests"

InitRest ==
    /\ dates = << >>
    /\ di = 1
    /\ si = 1
    /\ result = << >>
    /\ page = NoPage
    /\ horoscope = << >>
    /\ trace = << >>
    /\ gets = << >>
    /\ written = {}
    /\ mpc = "idle"
    /\ myear = MergeFirst
    /\ dfs = << >>
    /\ combined = Absent

Init == (InitMain \/ InitDirect) /\ InitRest

Next ==
    \/ YearLoop
    \/ EnterLoops
    \/ LogProgress
    \/ Download
    \/ Extract
    \/ AppendRecord
    \/ Sleep
    \/ Return
    \/ SaveYear
    \/ MergeStart
    \/ MergeRead
    \/ MergeWrite

Spec == Init /\ [][Next]_vars

\* get_horoscope on the pages a download can leave in page_content
Nodes ==
    { Marker, Element("time", "other"), Element("p", ""),
      TextNode(<< " ", "\n" >>), TextNode(<< "\n", "h", "i", " " >>),
      TextNode(<< "h", "i" >>) }

\* A parser never leaves two text nodes side by side
Docs ==
    { doc \in UNION { [1 .. n -> Nodes] : n \in 0 .. MaxNodes } :
        \A i \in 1 .. Len(doc) - 1 :
            ~(doc[i].tag = "#text" /\ doc[i + 1].tag = "#text") }

InitExtract ==
    /\ caller = "Requester"
    /\ start_year = 0 /\ end_year = 0 /\ year = 0
    /\ delay = 0
    /\ arg_signs = Given(<< "leo" >>)
    /\ verbose = FALSE
    /\ date_start = Date(2015, 1, 1)
    /\ date_end = Date(2015, 1, 1)
    /\ zodiac_signs = << "leo" >>
    /\ dates = << Date(2015, 1, 1) >>
    /\ di = 1
    /\ si = 1
    /\ result = << >>
    /\ \E doc \in Docs, st \in Statuses :
        page = [url |-> Url("leo", format_date(Date(2015, 1, 1))),
                status |-> st, page_content |-> doc]
    /\ horoscope = << >>
    /\ trace = << Event("get", "leo", Date(2015, 1, 1),
                        Url("leo", format_date(Date(2015, 1, 1)))) >>
    /\ gets = (Url("leo", format_date(Date(2015, 1, 1))) :> 1)
    /\ files = [y \in Years |-> Absent]
    /\ written = {}
    /\ mpc = "idle"
    /\ myear = MergeFirst
    /\ dfs = << >>
    /\ combined = Absent
    /\ pc = "parse"

SpecExtract == InitExtract /\ [][Extract]_vars

---------------------------------------------------------------------------
(* Properties *)

\* The number of a day, counted from the first day of year 0
Ord(a) == (a.y * LastMonth + (a.m - 1)) * LastDay + (a.d - 1)

DayCount(a, b) == IF Ord(b) < Ord(a) THEN 0 ELSE Ord(b) - Ord(a) + 1

InLoops == {"iter", "download", "parse", "append", "sleep", "return", "aborted"}

Last(seq) == seq[Len(seq)]

SamePair(e, f) == e.sign = f.sign /\ e.date = f.date

IsSuccess(status) == status \in 200 .. 299

\* C1: for every year Y that request_everything processes, the dates enumerated
\* are Y-01-01 .. Y-12-31, one per day in ascending order, except for 2017,
\* where they are 2017-01-01 .. 2017-12-20.
C1_YearDatesAsClaimed ==
    (caller = "request_everything" /\ pc \in InLoops) =>
        LET last == IF year = 2017
                    THEN Date(2017, LastMonth, LastDay - 1)
                    ELSE Date(year, LastMonth, LastDay)
        IN  /\ Len(dates) = DayCount(Date(year, 1, 1), last)
            /\ \A k \in 1 .. Len(dates) :
                /\ dates[k].y = year
                /\ Ord(dates[k]) = Ord(Date(year, 1, 1)) + k - 1

\* C2: in a run of request_everything the years whose file the run has written
\* are the years it has completed, such a file holds one row for every
\* (date, sign) pair the Requester of its year enumerates, in order, and when a
\* fetch or extract of the year in flight has failed the run has written no
\* file for that year.
C2_YearFileComplete ==
    caller = "request_everything" =>
        /\ written = start_year .. (year - 1)
        /\ \A y \in Years :
            (files[y].exists /\ y \in written) =>
                LET ds == date_range(start_date(y), end_date(y))
                    n  == Len(ZodiacSigns)
                    rows == files[y].rows
                IN  /\ files[y].header = Columns
                    /\ Len(rows) = Len(ds) * n
                    /\ \A k \in 1 .. Len(rows) :
                        /\ rows[k][1] = << ZodiacSigns[((k - 1) % n) + 1] >>
                        /\ rows[k][2] = IsoDate(ds[((k - 1) \div n) + 1])
        /\ pc = "aborted" => year \notin written

C2_Witness ==
    /\ caller = "request_everything"
    /\ pc = "aborted"
    /\ written = {start_year}
    /\ files[start_year].exists
    /\ Len(files[start_year].rows) > 0
    /\ ~files[year].exists
    /\ Len(result) > 0

RECURSIVE RowsBefore(_)
RowsBefore(y) ==
    IF y <= MergeFirst THEN 0 ELSE RowsBefore(y - 1) + Len(files[y - 1].rows)

\* C3: the combined file is the concatenation of the yearly files in ascending
\* year order: its row count is the sum of theirs, the rows of a year keep their
\* order and come before those of the next year, the columns are SIGN, DATE,
\* TEXT.
C3_MergeConcatenates ==
    combined.exists =>
        /\ combined.header = << "SIGN", "DATE", "TEXT" >>
        /\ Len(combined.rows) = RowsBefore(MergeLast + 1)
        /\ \A y \in Years :
            \A i \in 1 .. Len(files[y].rows) :
                combined.rows[RowsBefore(y) + i] = files[y].rows[i]

C3_Witness ==
    /\ combined.exists
    /\ written # {}
    /\ Len(files[MergeFirst].rows) > 0
    /\ Len(files[MergeFirst + 1].rows) > 0
    /\ Len(combined.rows) > Len(files[MergeFirst].rows)

\* C4: every record of the table request_everything builds and saves for
\* year Y has a date of year Y.
C4_RecordsOfTheYear ==
    caller = "request_everything" =>
        /\ pc \in InLoops => \A k \in 1 .. Len(result) : result[k][2].y = year
        /\ \A y \in written :
            \A k \in 1 .. Len(files[y].rows) : files[y].rows[k][2][1] = y

C4_Witness ==
    /\ caller = "request_everything"
    /\ written = {MainEnd - 1}
    /\ Len(files[MainEnd - 1].rows) > 0

\* C5: a response with a non-2xx status is fatal: no record is appended for a
\* pair whose response had such a status.
C5_NonSuccessIsFatal ==
    (pc = "sleep" /\ Len(result) > 0 /\ Last(result)[1] = CurrentSign
        /\ Last(result)[2] = CurrentDate)
    => IsSuccess(page.status)

MarkerPositions(doc) ==
    { i \in 1 .. Len(doc) : doc[i].tag = "time" /\ doc[i].class = "todays-horoscope" }

FirstMarker(doc) ==
    CHOOSE i \in MarkerPositions(doc) : \A j \in MarkerPositions(doc) : i <= j

LacksMarkerOrSibling(doc) ==
    MarkerPositions(doc) = {} \/ FirstMarker(doc) = Len(doc)

AllWhitespace(t) == \A i \in 1 .. Len(t) : t[i] \in {" ", "\n"}

\* h is t without its leading and trailing whitespace
IsTrimOf(h, t) ==
    /\ \E a, b \in 0 .. Len(t) :
        /\ a + b <= Len(t)
        /\ h = SubSeq(t, a + 1, Len(t) - b)
        /\ AllWhitespace(SubSeq(t, 1, a))
        /\ AllWhitespace(SubSeq(t, Len(t) - b + 1, Len(t)))
    /\ h # << >> => h[1] \notin {" ", "\n"} /\ h[Len(h)] \notin {" ", "\n"}

\* C6, as claimed: extraction fails when the page has no marker element or the
\* marker has no following sibling, and a string it returns is never empty.
C6_NeverEmptyAsClaimed ==
    pc # "parse" =>
        /\ LacksMarkerOrSibling(page.page_content) => pc = "aborted"
        /\ pc = "append" => horoscope # << >>

\* C6, amended: extraction fails when the page has no marker element, when the
\* marker has no following sibling and when that sibling is an element;
\* otherwise it returns the sibling text without its leading and trailing
\* whitespace, which is the empty string exactly when that text is whitespace
\* only.
C6_TrimmedSibling ==
    pc # "parse" =>
        LET doc == page.page_content IN
        IF LacksMarkerOrSibling(doc) THEN pc = "aborted"
        ELSE LET node == doc[FirstMarker(doc) + 1] IN
             IF node.tag # "#text" THEN pc = "aborted"
             ELSE /\ pc = "append"
                  /\ IsTrimOf(horoscope, node.text)
                  /\ (horoscope = << >>) <=> AllWhitespace(node.text)

C6_Witness ==
    /\ pc = "append"
    /\ horoscope = << >>
    /\ ~LacksMarkerOrSibling(page.page_content)

\* The records of make_requests for the signs sg over date_start .. date_end:
\* one per (date, sign), ascending date, the signs in their order within a date
RecordsFor(sg) ==
    /\ Len(result) = DayCount(date_start, date_end) * Len(sg)
    /\ \A k \in 1 .. Len(result) :
        /\ result[k][1] = sg[((k - 1) % Len(sg)) + 1]
        /\ Ord(result[k][2]) = Ord(date_start) + ((k - 1) \div Len(sg))
        /\ Len(result[k]) = 3

\* C7, as claimed: for every date range and every collection of signs given to
\* Requester, the empty one included, a make_requests call that succeeds
\* returns one record per date and given sign, by ascending date, the signs in
\* the given order within a date.
C7_GivenSignsAsClaimed ==
    (caller = "Requester" /\ pc = "done" /\ arg_signs.given) =>
        RecordsFor(arg_signs.signs)

\* C7, amended: this holds for every non-empty collection of signs; for the
\* empty collection, as when no collection is given, the records are those of
\* the twelve default signs in their listed order.
C7_RecordsPerDateAndSign ==
    (caller = "Requester" /\ pc = "done") =>
        IF arg_signs.given /\ Len(arg_signs.signs) > 0
        THEN RecordsFor(arg_signs.signs)
        ELSE RecordsFor(<< "aries", "taurus", "gemini", "cancer", "leo", "virgo",
                           "libra", "scorpio", "sagittarius", "capricorn",
                           "aquarius", "pisces" >>)

C7_Witness ==
    /\ caller = "Requester"
    /\ pc = "done"
    /\ arg_signs = Given(<< "aries" >>)
    /\ Len(result) = 3
    /\ \A k \in 1 .. 3 : result[k][1] = "aries"

\* C8: the merge aborts at the first yearly file of 2010..2017 that is missing,
\* skips no year and then writes no combined file; after a scrape run that
\* aborted in a year, leaving no file of that year, there is no combined file.
C8_MergeNeedsEveryYear ==
    /\ combined.exists => \A y \in Years : files[y].exists
    /\ mpc \in {"read", "concat", "done"} =>
        /\ Len(dfs) = myear - MergeFirst
        /\ \A y \in MergeFirst .. myear - 1 : files[y].exists
    /\ mpc = "aborted" => ~combined.exists /\ ~files[myear].exists
    /\ (caller = "request_everything" /\ pc = "aborted" /\ ~files[year].exists)
        => ~combined.exists

C8_Witness ==
    /\ caller = "request_everything"
    /\ pc = "aborted"
    /\ mpc = "aborted"
    /\ myear = year
    /\ myear > MergeFirst
    /\ files[MergeFirst].exists
    /\ ~combined.exists

\* C9, as claimed: the progress line of a pair is printed after the fetch and
\* the append of that pair.
C9_LogAfterAppendAsClaimed ==
    (trace # << >> /\ Last(trace).ev = "print") =>
        /\ Url(Last(trace).sign, format_date(Last(trace).date)) \in DOMAIN gets
        /\ Len(result) > 0
        /\ Last(result)[1] = Last(trace).sign
        /\ Last(result)[2] = Last(trace).date

\* C9, amended: for each pair the order is: the progress line (when verbose),
\* the fetch, the extraction, the append, the sleep; the progress line of a pair
\* is printed before that pair is fetched and appended.
C9_StepOrder ==
    trace # << >> =>
        LET n == Len(trace)
            e == trace[n]
            first == n = 1
            p == trace[IF n = 1 THEN 1 ELSE n - 1]
        IN  /\ e.ev = "print" =>
                /\ verbose
                /\ first \/ p.ev \in {"banner", "sleep"}
                /\ Len(result) = (di - 1) * Len(zodiac_signs) + (si - 1)
            /\ e.ev = "get" =>
                IF verbose THEN ~first /\ p.ev = "print" /\ SamePair(e, p)
                ELSE first \/ p.ev = "sleep"
            /\ e.ev = "extract" => ~first /\ p.ev = "get" /\ SamePair(e, p)
            /\ e.ev = "append" =>
                /\ ~first /\ p.ev = "extract" /\ SamePair(e, p)
                /\ Last(result) = << e.sign, e.date, horoscope >>
            /\ e.ev = "sleep" => ~first /\ p.ev = "append" /\ SamePair(e, p)

C9_Witness ==
    /\ verbose
    /\ Len(trace) >= 5
    /\ Last(trace).ev = "sleep"
    /\ trace[Len(trace) - 4].ev = "print"
    /\ SamePair(trace[Len(trace) - 4], Last(trace))

\* C10: in a run of request_everything every GET is for a URL not requested
\* before; a failing fetch or extract ends the run in that very step; and
\* once the run has ended so, no GET is issued, no record appended and no
\* yearly file written or changed.
C10_Step ==
    caller = "request_everything" =>
        /\ gets' # gets =>
            /\ page'.url \notin DOMAIN gets
            /\ gets'[page'.url] = 1
            /\ page'.status = 0 => pc' = "aborted"
        /\ (trace' # trace /\ Last(trace').ev \in {"AttributeError", "TypeError"})
            => pc' = "aborted"
        /\ pc = "aborted" =>
            /\ pc' = "aborted"
            /\ gets' = gets
            /\ result' = result
            /\ files' = files
            /\ trace' = trace

C10_NoRetryNoResume == [][C10_Step]_vars

C10_Witness ==
    /\ caller = "request_everything"
    /\ pc = "aborted"
    /\ Last(trace).ev = "get"
    /\ year = MainStart + 1
    /\ written = {MainStart}
    /\ Len(result) > 0
    /\ mpc = "read"
    /\ myear > MainStart

=============================================================================
